---- MODULE Spec2Model ----
(***************************************************************************)
(* NewCode-Geo (src/main.py): a latitude/longitude pair is quantized to    *)
(* two 24-bit integers and written as ten symbols of a 29-symbol alphabet. *)
(*                                                                         *)
(* The program computes with Python floats (IEEE-754 binary64, round to    *)
(* nearest, ties to even).  A float is modelled exactly: a record          *)
(* [neg, mag, exp] standing for (-1)^neg * mag * 2^exp, where mag is a     *)
(* natural number of at most 53 bits kept as a sequence of 7-bit limbs,    *)
(* least significant first, so that no intermediate value needs more than  *)
(* 31 bits.  Every float operation of the source is the exact operation    *)
(* followed by RoundDouble.                                                *)
(***************************************************************************)
EXTENDS Integers, Sequences, FiniteSets, TLC

VARIABLES pc, call, ret, stdout, exit

vars == <<pc, call, ret, stdout, exit>>

----------------------------------------------------------------------------
(* Natural numbers of any size: sequences of limbs, least significant      *)
(* first, no leading (high-order) zero limb; zero is the empty sequence.   *)

Limb == 2^7

RECURSIVE BigOfInt(_)
BigOfInt(n) == IF n = 0 THEN <<>> ELSE <<n % Limb>> \o BigOfInt(n \div Limb)

RECURSIVE IntOfBig(_)
IntOfBig(x) == IF x = <<>> THEN 0 ELSE Head(x) + Limb * IntOfBig(Tail(x))

RECURSIVE Trim(_)
Trim(x) ==
  IF x = <<>> THEN <<>>
  ELSE IF x[Len(x)] = 0 THEN Trim(SubSeq(x, 1, Len(x) - 1)) ELSE x

RECURSIVE BigAddC(_, _, _)
BigAddC(x, y, c) ==
  IF x = <<>> /\ y = <<>> THEN (IF c = 0 THEN <<>> ELSE <<c>>)
  ELSE LET a == IF x = <<>> THEN 0 ELSE Head(x)
           b == IF y = <<>> THEN 0 ELSE Head(y)
           t == a + b + c
       IN  <<t % Limb>> \o BigAddC(IF x = <<>> THEN <<>> ELSE Tail(x),
                                   IF y = <<>> THEN <<>> ELSE Tail(y),
                                   t \div Limb)

BigAdd(x, y) == BigAddC(x, y, 0)

\* x - y for x >= y
RECURSIVE BigSubB(_, _, _)
BigSubB(x, y, b) ==
  IF x = <<>> THEN <<>>
  ELSE LET s == IF y = <<>> THEN 0 ELSE Head(y)
           t == Head(x) - s - b
       IN  <<t % Limb>> \o BigSubB(Tail(x),
                                   IF y = <<>> THEN <<>> ELSE Tail(y),
                                   IF t < 0 THEN 1 ELSE 0)

BigSub(x, y) == Trim(BigSubB(x, y, 0))

\* -1, 0, 1 as x < y, x = y, x > y
RECURSIVE BigCmpFrom(_, _, _)
BigCmpFrom(x, y, i) ==
  IF i = 0 THEN 0
  ELSE IF x[i] < y[i] THEN -1
  ELSE IF x[i] > y[i] THEN 1
  ELSE BigCmpFrom(x, y, i - 1)

BigCmp(x, y) ==
  IF Len(x) < Len(y) THEN -1
  ELSE IF Len(x) > Len(y) THEN 1
  ELSE BigCmpFrom(x, y, Len(x))

\* x * c for 0 <= c < 2^24
RECURSIVE BigMulC(_, _, _)
BigMulC(x, c, carry) ==
  IF x = <<>> THEN BigOfInt(carry)
  ELSE LET t == Head(x) * c + carry
       IN  <<t % Limb>> \o BigMulC(Tail(x), c, t \div Limb)

BigMulSmall(x, c) == IF c = 0 THEN <<>> ELSE BigMulC(x, c, 0)

\* quotient and remainder of x by d, 0 < d < 2^24
BigDivStep(hi, t, d) == [q |-> <<t \div d>> \o hi.q, r |-> t % d]

BigDivLimb(hi, limb, d) == BigDivStep(hi, hi.r * Limb + limb, d)

RECURSIVE BigDivR(_, _)
BigDivR(x, d) ==
  IF x = <<>> THEN [q |-> <<>>, r |-> 0]
  ELSE BigDivLimb(BigDivR(Tail(x), d), Head(x), d)

BigDivTrim(qr) == [q |-> Trim(qr.q), r |-> qr.r]

BigDivSmall(x, d) == BigDivTrim(BigDivR(x, d))

Zeros(k) == [i \in 1..k |-> 0]

\* x * 2^k
BigShl(x, k) ==
  IF x = <<>> THEN <<>>
  ELSE Zeros(k \div 7) \o BigMulSmall(x, 2^(k % 7))

\* floor(x / 2^k), and whether a nonzero bit was shifted out
BigShrParts(qr, low) ==
  [q |-> qr.q, sticky |-> (qr.r # 0) \/ (\E i \in 1..Len(low) : low[i] # 0)]

BigShrLimbs(x, w, r) ==
  BigShrParts(BigDivSmall(SubSeq(x, w + 1, Len(x)), 2^r),
              SubSeq(x, 1, IF w < Len(x) THEN w ELSE Len(x)))

BigShr(x, k) == BigShrLimbs(x, k \div 7, k % 7)

RECURSIVE IntBitLen(_)
IntBitLen(n) == IF n = 0 THEN 0 ELSE 1 + IntBitLen(n \div 2)

BigBitLen(x) == IF x = <<>> THEN 0 ELSE 7 * (Len(x) - 1) + IntBitLen(x[Len(x)])

BigOdd(x) == x # <<>> /\ Head(x) % 2 = 1

----------------------------------------------------------------------------
(* Dyadic rationals (-1)^neg * mag * 2^exp with exact arithmetic.  Zero is *)
(* DZero; a dyadic is kept with an odd mag, so equal values are equal      *)
(* records.                                                                *)

DZero == [neg |-> FALSE, mag |-> <<>>, exp |-> 0]

RECURSIVE DNormLoop(_)
DNormLoop(x) ==
  IF BigOdd(x.mag) THEN x
  ELSE IF Head(x.mag) = 0
       THEN DNormLoop([x EXCEPT !.mag = Tail(x.mag), !.exp = x.exp + 7])
       ELSE DNormLoop([x EXCEPT !.mag = BigDivSmall(x.mag, 2).q, !.exp = x.exp + 1])

DNorm(x) == IF x.mag = <<>> THEN DZero ELSE DNormLoop(x)

\* the integer i as a dyadic
DInt(i) == DNorm([neg |-> i < 0, mag |-> BigOfInt(IF i < 0 THEN -i ELSE i), exp |-> 0])

\* i * 2^e
DShift(d, e) == IF d.mag = <<>> THEN DZero ELSE [d EXCEPT !.exp = d.exp + e]

DScaled(i, e) == DShift(DInt(i), e)

DNeg(x) == IF x.mag = <<>> THEN DZero ELSE [x EXCEPT !.neg = ~x.neg]

\* the sum of (-1)^xneg * mx * 2^e and (-1)^yneg * my * 2^e, c = BigCmp(mx, my)
DAddSigned(xneg, mx, yneg, my, c, e) ==
  IF xneg = yneg
  THEN DNorm([neg |-> xneg, mag |-> BigAdd(mx, my), exp |-> e])
  ELSE IF c = 0 THEN DZero
  ELSE IF c > 0 THEN DNorm([neg |-> xneg, mag |-> BigSub(mx, my), exp |-> e])
  ELSE DNorm([neg |-> yneg, mag |-> BigSub(my, mx), exp |-> e])

DAddAligned(xneg, mx, yneg, my, e) ==
  DAddSigned(xneg, mx, yneg, my, BigCmp(mx, my), e)

DAddAt(x, y, e) ==
  DAddAligned(x.neg, BigShl(x.mag, x.exp - e), y.neg, BigShl(y.mag, y.exp - e), e)

DAdd(x, y) ==
  IF x.mag = <<>> THEN y
  ELSE IF y.mag = <<>> THEN x
  ELSE DAddAt(x, y, IF x.exp < y.exp THEN x.exp ELSE y.exp)

DSub(x, y) == DAdd(x, DNeg(y))

\* x * c for an integer 0 <= c < 2^24
DMulInt(x, c) == DNorm([x EXCEPT !.mag = BigMulSmall(x.mag, c)])

\* the sign of x: -1, 0, 1
DSign(x) == IF x.mag = <<>> THEN 0 ELSE IF x.neg THEN -1 ELSE 1

DLess(x, y) == DSign(DSub(x, y)) < 0
DLeq(x, y)  == DSign(DSub(x, y)) <= 0

----------------------------------------------------------------------------
(* binary64: the exact result rounded to 53 significant bits, to nearest,  *)
(* ties to even.  `sticky` says that the exact result is x plus a positive *)
(* amount below one unit of x.mag's last bit (a division's remainder).     *)
(* Exponent overflow and underflow do not arise for the magnitudes of this *)
(* program (between 2^-60 and 2^9).                                        *)

Precision == 53

\* q: the kept bits; guard: the first bit dropped; rest: a nonzero bit after it
RoundNearestEven(neg, q, guard, rest, e) ==
  DNorm([neg |-> neg,
         mag |-> IF guard /\ (rest \/ BigOdd(q)) THEN BigAdd(q, <<1>>) ELSE q,
         exp |-> e])

\* g: x.mag shifted right so that its last bit is the guard bit
RoundGuard(neg, g, sticky, e) ==
  RoundNearestEven(neg, BigDivSmall(g.q, 2).q, BigOdd(g.q), g.sticky \/ sticky, e)

RoundLen(x, sticky, len) ==
  IF len <= Precision
  THEN DNorm(x)
  ELSE RoundGuard(x.neg, BigShr(x.mag, len - Precision - 1), sticky,
                  x.exp + len - Precision)

RoundDouble(x, sticky) == RoundLen(x, sticky, BigBitLen(x.mag))

\* float + float, float - float
FAdd(x, y) == RoundDouble(DAdd(x, y), FALSE)
FSub(x, y) == RoundDouble(DSub(x, y), FALSE)

\* float * c, c an integer constant 0 <= c < 2^24 (itself an exact float)
FMul(x, c) == RoundDouble(DMulInt(x, c), FALSE)

\* float / d, d an integer constant 0 < d < 2^24: the quotient is taken to
\* at least 55 bits, the remainder is the sticky bit
FDivRound(neg, qr, e) == RoundDouble([neg |-> neg, mag |-> qr.q, exp |-> e], qr.r # 0)

FDivShift(x, d, k) == FDivRound(x.neg, BigDivSmall(BigShl(x.mag, k), d), x.exp - k)

FDiv(x, d) ==
  IF x.mag = <<>> THEN DZero
  ELSE FDivShift(x, d, Precision + 2 + IntBitLen(d))

\* math.floor of a float, as an integer
FloorShifted(neg, s) ==
  IF neg THEN -(IntOfBig(s.q) + (IF s.sticky THEN 1 ELSE 0)) ELSE IntOfBig(s.q)

Floor(x) ==
  IF x.exp >= 0 THEN (IF x.neg THEN -1 ELSE 1) * IntOfBig(BigShl(x.mag, x.exp))
  ELSE FloorShifted(x.neg, BigShr(x.mag, -x.exp))

----------------------------------------------------------------------------
(* The program: src/main.py.                                               *)

CHARSET ==
  << "A", "B", "C", "D", "E", "F", "G", "H",
     "J", "K", "L", "M", "N", "P", "Q", "R",
     "T", "U", "V", "W", "X", "Y", "2", "3",
     "4", "6", "7", "8", "9" >>

BASE == Len(CHARSET)

\* the keys of the dictionary CHAR_TO_INDEX
Alphabet == {CHARSET[i] : i \in 1..Len(CHARSET)}

CHAR_TO_INDEX(char) == (CHOOSE i \in 1..Len(CHARSET) : CHARSET[i] = char) - 1

INDEX_TO_CHAR(idx) == CHARSET[idx + 1]

\* the value 2**24 - 1 of encode and decode
SCALE == 2^24 - 1

\* a call's outcome: a returned value, or a raised ValueError
Ok(v) == [ok |-> TRUE, val |-> v]

Raise(kind, detail) ==
  [ok |-> FALSE, val |-> [exc |-> "ValueError", kind |-> kind, detail |-> detail]]

Reverse(s) == [i \in 1..Len(s) |-> s[Len(s) + 1 - i]]

\* the loop of int_to_base29: `left` iterations to go
RECURSIVE int_to_base29_loop(_, _, _)
int_to_base29_loop(n, left, chars) ==
  IF left <= 0 THEN chars
  ELSE int_to_base29_loop(n \div BASE, left - 1, Append(chars, INDEX_TO_CHAR(n % BASE)))

\* a slip: n beyond `length` digits saturates at the largest digit string
int_to_base29_clamped(n, length) ==
  IF n >= BASE^length THEN [i \in 1..length |-> INDEX_TO_CHAR(BASE - 1)]
  ELSE Reverse(int_to_base29_loop(n, length, <<>>))

\* a slip: the digits are left least significant first
int_to_base29_unreversed(n, length) == int_to_base29_loop(n, length, <<>>)

int_to_base29(n, length) == Reverse(int_to_base29_loop(n, length, <<>>))

\* the loop of base29_to_int over s[i..]
RECURSIVE base29_to_int_loop(_, _, _)
base29_to_int_loop(s, i, n) ==
  IF i > Len(s) THEN Ok(n)
  ELSE IF s[i] \notin Alphabet THEN Raise("InvalidSymbol", s[i])
  ELSE base29_to_int_loop(s, i + 1, n * BASE + CHAR_TO_INDEX(s[i]))

\* a slip: the loop starts at the second character
base29_to_int_skip_first(s) == base29_to_int_loop(s, 2, 0)

base29_to_int(s) == base29_to_int_loop(s, 1, 0)

\* lat_int and lon_int of encode
\* a slip: scaled by 2^24, not by 2^24 - 1
encode_lat_int_pow2(lat) == Floor(FMul(FDiv(FAdd(lat, DInt(90)), 180), 2^24))

encode_lat_int(lat) == Floor(FMul(FDiv(FAdd(lat, DInt(90)), 180), SCALE))

\* a slip: the longitude is not shifted to 0..360 before it is scaled
encode_lon_int_unshifted(lon) == Floor(FMul(FDiv(lon, 360), SCALE))

encode_lon_int(lon) == Floor(FMul(FDiv(FAdd(lon, DInt(180)), 360), SCALE))

\* a slip: the longitude field comes first
encode_swapped(lat, lon) ==
  IF ~(DLeq(DInt(-90), lat) /\ DLeq(lat, DInt(90)))
  THEN Raise("OutOfRange", "latitude")
  ELSE IF ~(DLeq(DInt(-180), lon) /\ DLeq(lon, DInt(180)))
  THEN Raise("OutOfRange", "longitude")
  ELSE Ok(int_to_base29(encode_lon_int(lon), 5) \o int_to_base29(encode_lat_int(lat), 5))

\* a slip: the longitude is validated before the latitude
encode_lon_first(lat, lon) ==
  IF ~(DLeq(DInt(-180), lon) /\ DLeq(lon, DInt(180)))
  THEN Raise("OutOfRange", "longitude")
  ELSE IF ~(DLeq(DInt(-90), lat) /\ DLeq(lat, DInt(90)))
  THEN Raise("OutOfRange", "latitude")
  ELSE Ok(int_to_base29(encode_lat_int(lat), 5) \o int_to_base29(encode_lon_int(lon), 5))

encode(lat, lon) ==
  IF ~(DLeq(DInt(-90), lat) /\ DLeq(lat, DInt(90)))
  THEN Raise("OutOfRange", "latitude")
  ELSE IF ~(DLeq(DInt(-180), lon) /\ DLeq(lon, DInt(180)))
  THEN Raise("OutOfRange", "longitude")
  ELSE Ok(int_to_base29(encode_lat_int(lat), 5) \o int_to_base29(encode_lon_int(lon), 5))

\* lat and lon of decode, from lat_int and lon_int
\* a slip: divided by 2^24, not by 2^24 - 1
decode_lat_pow2(lat_int) == FSub(FMul(FDiv(DInt(lat_int), 2^24), 180), DInt(90))

decode_lat(lat_int) == FSub(FMul(FDiv(DInt(lat_int), SCALE), 180), DInt(90))

decode_lon(lon_int) == FSub(FMul(FDiv(DInt(lon_int), SCALE), 360), DInt(180))

\* decode from line 85 on: lat_int and lon_int are the outcomes of the two
\* base29_to_int calls, the first exception raised propagates
decode_fields(lat_int, lon_int) ==
  IF ~lat_int.ok THEN lat_int
  ELSE IF ~lon_int.ok THEN lon_int
  ELSE Ok(<<decode_lat(lat_int.val), decode_lon(lon_int.val)>>)

\* a slip: the fields are parsed before the length is checked
decode_symbols_first(code) ==
  IF ~base29_to_int(code).ok THEN base29_to_int(code)
  ELSE IF Len(code) # 10 THEN Raise("InvalidLength", "")
  ELSE decode_fields(base29_to_int(SubSeq(code, 1, 5)), base29_to_int(SubSeq(code, 6, 10)))

decode(code) ==
  IF Len(code) # 10 THEN Raise("InvalidLength", "")
  ELSE decode_fields(base29_to_int(SubSeq(code, 1, 5)), base29_to_int(SubSeq(code, 6, 10)))

\* geopy's geodesic(original, decoded).meters: the external geodesy
\* function, left uninterpreted
Geodesic(original, decoded) == [geodesic |-> <<original, decoded>>]

\* calculate_error from line 113 on
calculate_error_distance(original, decoded) ==
  IF ~decoded.ok THEN decoded ELSE Ok(Geodesic(original, decoded.val))

\* calculate_error from line 111 on
calculate_error_decode(original, code) ==
  IF ~code.ok THEN code ELSE calculate_error_distance(original, decode(code.val))

calculate_error(lat, lon) == calculate_error_decode(<<lat, lon>>, encode(lat, lon))

\* f"{error:.2f}" of the uninterpreted distance
Format2f(x) == [fmt |-> ".2f", of |-> x]

\* main() with the subcommand encode: what is printed, and the exit status
main_encode_print(code, error) ==
  IF ~code.ok
  THEN [out |-> << <<"Error: ", code.val>> >>, status |-> 1]
  ELSE IF ~error.ok
  THEN [out |-> << <<"Encoded Code: ", code.val>>, <<"Error: ", error.val>> >>,
        status |-> 1]
  ELSE [out |-> << <<"Encoded Code: ", code.val>>,
                   <<"Error: ", Format2f(error.val), " Metor(s)">> >>,
        status |-> 0]

main_encode(latitude, longitude) ==
  main_encode_print(encode(latitude, longitude), calculate_error(latitude, longitude))

\* main() with the subcommand decode
main_decode_print(r) ==
  IF ~r.ok
  THEN [out |-> << <<"Error: ", r.val>> >>, status |-> 1]
  ELSE [out |-> << <<"Decoded Coordinates:">>,
                   <<"Lat: ", r.val[1]>>,
                   <<"Lon: ", r.val[2]>> >>,
        status |-> 0]

main_decode(code) == main_decode_print(decode(code))

\* main() with no subcommand: the help text, exit status 1
main_help == [out |-> << <<"usage">> >>, status |-> 1]

----------------------------------------------------------------------------
(* The inputs.  Integers cluster around the powers of 29 and around 2^24;  *)
(* coordinates lie on a grid of whole degrees that reaches past both ends  *)
(* of the valid range, and within a few units in the last place of chosen  *)
(* anchors, and on decoded coordinates (a decoded code encoded again);     *)
(* codes are built from fields around 0, 2^24 - 1 and 29^5 - 1.            *)

\* how far the integer and float samples spread around each anchor
Delta == 2

\* the longest digit string asked of int_to_base29
MaxLength == 5

\* how many grid steps past the valid coordinate range are sampled
Over == 1

\* how many symbols beyond 10 a code of wrong length may have
MaxExtra == 1

Near == -Delta..Delta

Pow29(k) == BASE^k

IntSamples ==
  {n \in UNION ({ {Pow29(j) + d : d \in Near} : j \in 0..6 }
                \cup { {SCALE + d : d \in Near} }) : n >= 0}

IntToBase29Calls == {<<"int_to_base29", n, length>> : n \in IntSamples, length \in 1..MaxLength}

LatGrid == {DInt(2 * j) : j \in -(45 + Over)..(45 + Over)}

LatNear == {FAdd(DInt(a), DScaled(d, -e)) : a \in {-90, 0, 26, 90}, d \in Near, e \in {20, 46}}

\* quantized integers whose decoded coordinates are sampled
BucketInts == {k + d : k \in {10811983, 14942208, 16515072}, d \in Near}

LatBuckets == {decode_lat(k) : k \in BucketInts}

LatSamples == LatGrid \cup LatNear \cup LatBuckets

LonGrid == {DInt(4 * j) : j \in -(45 + Over)..(45 + Over)}

LonNear == {FAdd(DInt(a), DScaled(d, -e)) : a \in {-180, 0, 52, 180}, d \in Near, e \in {20, 45}}

LonBuckets == {decode_lon(k) : k \in BucketInts}

LonSamples == LonGrid \cup LonNear \cup LonBuckets

LatFew == {DInt(-90), DInt(26), DInt(90), DInt(91)}

LonFew == {DInt(-180), DInt(52), DInt(180), DInt(-181)}

CoordSamples == (LatSamples \X LonFew) \cup (LatFew \X LonSamples)

FieldInts ==
  {k \in {d : d \in Near} \cup {SCALE + d : d \in Near} \cup {Pow29(5) - 1 + d : d \in Near}
         \cup {10811983, 9600295} : k >= 0 /\ k < Pow29(5)}

Fields == {int_to_base29(k, 5) : k \in FieldInts}

FieldsFew == {int_to_base29(k, 5) : k \in {0, SCALE, Pow29(5) - 1}}

GoodCodes == {f \o g : f \in Fields, g \in FieldsFew} \cup {f \o g : f \in FieldsFew, g \in Fields}

GoodCodesFew == {f \o g : f \in FieldsFew, g \in FieldsFew}

\* characters that are not in CHARSET
BadChars == {"I", "O", "0", "a"}

BadSymbolCodes ==
  {[c EXCEPT ![i] = b] : c \in GoodCodesFew, i \in 1..10, b \in {"I", "a"}}

WrongLengthCodes ==
  {SubSeq(c, 1, k) : c \in GoodCodesFew \cup {[i \in 1..10 |-> "I"]}, k \in 0..9}
  \cup {c \o [i \in 1..k |-> x] : c \in GoodCodesFew, k \in 1..MaxExtra, x \in {"A", "I"}}

CodeSamples == GoodCodes \cup BadSymbolCodes \cup WrongLengthCodes

StringSamples ==
  Fields \cup {<<>>} \cup {<<a>> : a \in Alphabet \cup BadChars}
  \cup {<<a, b>> : a \in {"A", "B", "9", "I"}, b \in {"A", "9", "0"}}

Calls ==
  IntToBase29Calls
  \cup {<<"base29_to_int", s>> : s \in StringSamples}
  \cup {<<"encode", c[1], c[2]>> : c \in CoordSamples}
  \cup {<<"decode", c>> : c \in CodeSamples}
  \cup {<<"calculate_error", c[1], c[2]>> : c \in CoordSamples}
  \cup {<<"main", "encode", c[1], c[2]>> : c \in LatFew \X LonFew}
  \cup {<<"main", "decode", c>> : c \in GoodCodesFew \cup {<<"A">>, <<"I">>}}
  \cup {<<"main">>}

----------------------------------------------------------------------------
(* One call per behaviour: Init draws the call, the action for its function *)
(* runs it to its return or its exception.                                  *)

Init ==
  /\ pc = "start"
  /\ call \in Calls
  /\ ret = <<>>
  /\ stdout = <<>>
  /\ exit = -1

IntToBase29 ==
  /\ pc = "start" /\ call[1] = "int_to_base29"
  /\ ret' = Ok(int_to_base29(call[2], call[3]))
  /\ pc' = "done"
  /\ UNCHANGED <<call, stdout, exit>>

Base29ToInt ==
  /\ pc = "start" /\ call[1] = "base29_to_int"
  /\ ret' = base29_to_int(call[2])
  /\ pc' = "done"
  /\ UNCHANGED <<call, stdout, exit>>

Encode ==
  /\ pc = "start" /\ call[1] = "encode"
  /\ ret' = encode(call[2], call[3])
  /\ pc' = "done"
  /\ UNCHANGED <<call, stdout, exit>>

Decode ==
  /\ pc = "start" /\ call[1] = "decode"
  /\ ret' = decode(call[2])
  /\ pc' = "done"
  /\ UNCHANGED <<call, stdout, exit>>

CalculateError ==
  /\ pc = "start" /\ call[1] = "calculate_error"
  /\ ret' = calculate_error(call[2], call[3])
  /\ pc' = "done"
  /\ UNCHANGED <<call, stdout, exit>>

MainEncode ==
  /\ pc = "start" /\ call[1] = "main" /\ Len(call) > 1 /\ call[2] = "encode"
  /\ \E r \in {main_encode(call[3], call[4])} : stdout' = r.out /\ exit' = r.status
  /\ pc' = "done"
  /\ UNCHANGED <<call, ret>>

MainDecode ==
  /\ pc = "start" /\ call[1] = "main" /\ Len(call) > 1 /\ call[2] = "decode"
  /\ \E r \in {main_decode(call[3])} : stdout' = r.out /\ exit' = r.status
  /\ pc' = "done"
  /\ UNCHANGED <<call, ret>>

MainHelp ==
  /\ pc = "start" /\ call[1] = "main" /\ Len(call) = 1
  /\ stdout' = main_help.out /\ exit' = main_help.status
  /\ pc' = "done"
  /\ UNCHANGED <<call, ret>>

Next ==
  \/ IntToBase29
  \/ Base29ToInt
  \/ Encode
  \/ Decode
  \/ CalculateError
  \/ MainEncode
  \/ MainDecode
  \/ MainHelp

Spec == Init /\ [][Next]_vars

----------------------------------------------------------------------------
(* The claims.                                                             *)

Returned(fn) == pc = "done" /\ call[1] = fn

InLat(x) == DLeq(DInt(-90), x) /\ DLeq(x, DInt(90))

InLon(x) == DLeq(DInt(-180), x) /\ DLeq(x, DInt(180))

ValidCoords == InLat(call[2]) /\ InLon(call[3])

LatField(code) == SubSeq(code, 1, 5)

LonField(code) == SubSeq(code, 6, 10)

\* C1: for every n in 0 .. 2^24 - 1, base29_to_int(int_to_base29(n, 5))
\* returns n without failure.
C1_RoundTrip ==
  (Returned("int_to_base29") /\ call[3] = 5 /\ call[2] \in 0..(2^24 - 1))
    => base29_to_int(ret.val) = Ok(call[2])

C1_Witness ==
  /\ Returned("int_to_base29") /\ call[3] = 5 /\ call[2] = 2^24 - 1
  /\ base29_to_int(ret.val) = Ok(2^24 - 1)

\* C2: for valid lat and lon, encode returns exactly 10 symbols, each one
\* of the 29 symbols of the alphabet: the 5-symbol latitude field followed
\* by the 5-symbol longitude field.
C2_TenSymbols ==
  (Returned("encode") /\ ValidCoords)
    => /\ ret.ok
       /\ Len(ret.val) = 10
       /\ Cardinality(Alphabet) = 29
       /\ \A i \in 1..Len(ret.val) : ret.val[i] \in Alphabet
       /\ LatField(ret.val) = int_to_base29(encode_lat_int(call[2]), 5)
       /\ LonField(ret.val) = int_to_base29(encode_lon_int(call[3]), 5)

C2_Witness ==
  /\ Returned("encode") /\ call[2] = DInt(26) /\ call[3] = DInt(-180)
  /\ ret.ok /\ Len(ret.val) = 10
  /\ LatField(ret.val) # LonField(ret.val)

\* C3: encode fails with OutOfRange exactly when lat is outside [-90, 90]
\* or lon is outside [-180, 180]; the failure names the latitude when lat
\* is out of range (also when both are) and the longitude otherwise; a
\* failed call returns no code.
C3_OutOfRange ==
  Returned("encode")
    => /\ ~ret.ok <=> ~ValidCoords
       /\ ~ret.ok =>
            ret.val = [exc |-> "ValueError", kind |-> "OutOfRange",
                       detail |-> IF ~InLat(call[2]) THEN "latitude" ELSE "longitude"]

C3_Witness ==
  /\ Returned("encode") /\ ~InLat(call[2]) /\ ~InLon(call[3])
  /\ ~ret.ok /\ ret.val.detail = "latitude"

\* C4: decode fails with InvalidLength exactly when the code is not 10 long,
\* whatever its symbols; a code of 10 fails with InvalidSymbol exactly when
\* one of its characters is outside the alphabet; otherwise decode returns
\* a (lat, lon) pair.
C4_DecodeErrors ==
  Returned("decode")
    => /\ (Len(call[2]) # 10) <=> (~ret.ok /\ ret.val.kind = "InvalidLength")
       /\ Len(call[2]) = 10
            => ((\E i \in 1..10 : call[2][i] \notin Alphabet)
                  <=> (~ret.ok /\ ret.val.kind = "InvalidSymbol"))
       /\ (Len(call[2]) = 10 /\ \A i \in 1..10 : call[2][i] \in Alphabet)
            => (ret.ok /\ Len(ret.val) = 2)

C4_Witness ==
  /\ Returned("decode") /\ Len(call[2]) = 9
  /\ \E i \in 1..9 : call[2][i] \notin Alphabet
  /\ ~ret.ok /\ ret.val.kind = "InvalidLength"

\* the coordinates calculate_error decoded
Decoded == ret.val.geodesic[2]

\* lat2 <= lat and lat - lat2 < span / (2^24 - 1)
WithinBucket(lat, lat2, span) ==
  /\ DLeq(lat2, lat)
  /\ DLess(DMulInt(DSub(lat, lat2), 2^24 - 1), DInt(span))

\* 2^-40 degrees
Slack == DScaled(1, -40)

\* lat2 <= lat + 2^-40 and lat - lat2 < span / (2^24 - 1) + 2^-40
WithinBucketRounded(lat, lat2, span) ==
  /\ DLeq(lat2, DAdd(lat, Slack))
  /\ DLess(DMulInt(DSub(DSub(lat, lat2), Slack), 2^24 - 1), DInt(span))

ExtremesExact ==
  /\ (call[2] = DInt(-90) /\ call[3] = DInt(-180)) => Decoded = <<DInt(-90), DInt(-180)>>
  /\ (call[2] = DInt(90) /\ call[3] = DInt(180)) => Decoded = <<DInt(90), DInt(180)>>

\* C5 as stated: with (lat2, lon2) = decode(encode(lat, lon)) for valid lat
\* and lon, lat2 <= lat and lat - lat2 < 180 / (2^24 - 1), lon2 <= lon and
\* lon - lon2 < 360 / (2^24 - 1); the extremes round-trip exactly.
C5_AsStated ==
  (Returned("calculate_error") /\ ValidCoords)
    => /\ ret.ok
       /\ WithinBucket(call[2], Decoded[1], 180)
       /\ WithinBucket(call[3], Decoded[2], 360)
       /\ ExtremesExact

\* C5 amended: the same up to the rounding of the float operations, that is
\* lat2 <= lat + 2^-40 and lat - lat2 < 180 / (2^24 - 1) + 2^-40, lon2 <= lon
\* + 2^-40 and lon - lon2 < 360 / (2^24 - 1) + 2^-40; the extremes round-trip
\* exactly.
C5_RoundTripRounded ==
  (Returned("calculate_error") /\ ValidCoords)
    => /\ ret.ok
       /\ WithinBucketRounded(call[2], Decoded[1], 180)
       /\ WithinBucketRounded(call[3], Decoded[2], 360)
       /\ ExtremesExact

C5_Witness ==
  /\ Returned("calculate_error") /\ call[2] = DInt(26) /\ call[3] = DInt(52)
  /\ ret.ok
  /\ DLess(call[2], Decoded[1]) /\ DLess(call[3], Decoded[2])
  /\ WithinBucketRounded(call[2], Decoded[1], 180)
  /\ WithinBucketRounded(call[3], Decoded[2], 360)

\* the value of a string of alphabet symbols read as base-29 digits
RECURSIVE DigitsValue(_)
DigitsValue(s) ==
  IF s = <<>> THEN 0
  ELSE DigitsValue(SubSeq(s, 1, Len(s) - 1)) * 29 + CHAR_TO_INDEX(s[Len(s)])

\* C6: for every 10-symbol string over the alphabet decode returns without
\* failure; the latitude lies in [-90, 90] exactly when the first field's
\* value is at most 2^24 - 1, the longitude in [-180, 180] exactly when the
\* second field's value is at most 2^24 - 1.
C6_NoRevalidation ==
  (Returned("decode") /\ Len(call[2]) = 10 /\ \A i \in 1..10 : call[2][i] \in Alphabet)
    => /\ ret.ok
       /\ InLat(ret.val[1]) <=> DigitsValue(LatField(call[2])) <= 2^24 - 1
       /\ InLon(ret.val[2]) <=> DigitsValue(LonField(call[2])) <= 2^24 - 1

C6_Witness ==
  /\ Returned("decode") /\ Len(call[2]) = 10 /\ \A i \in 1..10 : call[2][i] \in Alphabet
  /\ DigitsValue(LatField(call[2])) = 2^24
  /\ DigitsValue(LonField(call[2])) = 29^5 - 1
  /\ ret.ok /\ DLess(DInt(90), ret.val[1]) /\ DLess(DInt(180), ret.val[2])

\* C7: the subcommand encode with valid inputs prints "Encoded Code: <code>"
\* and then "Error: <meters to 2 decimals> Meter(s)".
C7_EncodeOutput ==
  (pc = "done" /\ call[1] = "main" /\ Len(call) = 4 /\ call[2] = "encode"
     /\ InLat(call[3]) /\ InLon(call[4]))
    => stdout = << <<"Encoded Code: ", encode(call[3], call[4]).val>>,
                   <<"Error: ", Format2f(calculate_error(call[3], call[4]).val), " Meter(s)">> >>

\* C8: for valid lat and lon, lat_int and lon_int lie in 0 .. 2^24 - 1, below
\* 29^5, and each 5-symbol field of the code reads back as the integer it
\* was built from.
C8_NoTruncation ==
  (Returned("encode") /\ ValidCoords)
    => /\ encode_lat_int(call[2]) \in 0..(2^24 - 1)
       /\ encode_lon_int(call[3]) \in 0..(2^24 - 1)
       /\ 2^24 - 1 < 29^5
       /\ ret.ok
       /\ base29_to_int(LatField(ret.val)) = Ok(encode_lat_int(call[2]))
       /\ base29_to_int(LonField(ret.val)) = Ok(encode_lon_int(call[3]))

C8_Witness ==
  /\ Returned("encode") /\ call[2] = DInt(90) /\ call[3] = DInt(-180)
  /\ ret.ok
  /\ base29_to_int(LatField(ret.val)) = Ok(2^24 - 1)
  /\ base29_to_int(LonField(ret.val)) = Ok(0)

\* C9: for n >= 0 and length >= 1, int_to_base29(n, length) returns exactly
\* `length` symbols; it equals int_to_base29(n mod 29^length, length), and
\* base29_to_int of it is n mod 29^length.
C9_Truncation ==
  (Returned("int_to_base29") /\ call[2] >= 0 /\ call[3] >= 1)
    => /\ ret.ok
       /\ Len(ret.val) = call[3]
       /\ ret.val = int_to_base29(call[2] % (29^call[3]), call[3])
       /\ base29_to_int(ret.val) = Ok(call[2] % (29^call[3]))

C9_Witness ==
  /\ Returned("int_to_base29") /\ call[3] = 5 /\ call[2] = 29^5 + 1
  /\ ret.val = <<"A", "A", "A", "A", "B">>

\* s <= t in the lexicographic order of the alphabet's indices
RECURSIVE LexLeq(_, _)
LexLeq(s, t) ==
  IF s = <<>> THEN TRUE
  ELSE IF t = <<>> THEN FALSE
  ELSE IF CHAR_TO_INDEX(Head(s)) # CHAR_TO_INDEX(Head(t))
       THEN CHAR_TO_INDEX(Head(s)) < CHAR_TO_INDEX(Head(t))
  ELSE LexLeq(Tail(s), Tail(t))

ValidLats == {x \in LatSamples : InLat(x)}

ValidLons == {x \in LonSamples : InLon(x)}

\* the latitude field of every valid sample, and the longitude field
LatFieldOf == [x \in ValidLats |-> LatField(encode(x, DInt(0)).val)]

LonFieldOf == [x \in ValidLons |-> LonField(encode(DInt(0), x).val)]

\* C10: for valid inputs, lat1 <= lat2 implies that the latitude field of
\* encode(lat1, lon) is lexicographically at most that of encode(lat2, lon);
\* likewise for the longitude field.
C10_Monotone ==
  (Returned("encode") /\ ValidCoords)
    => /\ \A x \in ValidLats :
            DLeq(call[2], x) => LexLeq(LatField(ret.val), LatFieldOf[x])
       /\ \A x \in ValidLons :
            DLeq(call[3], x) => LexLeq(LonField(ret.val), LonFieldOf[x])

C10_Witness ==
  /\ Returned("encode") /\ call[2] = DInt(-2) /\ call[3] = DInt(52)
  /\ LatField(ret.val) # LatFieldOf[DInt(26)]
  /\ LexLeq(LatField(ret.val), LatFieldOf[DInt(26)])
  /\ LonField(ret.val) # LonFieldOf[DInt(180)]
  /\ LexLeq(LonField(ret.val), LonFieldOf[DInt(180)])

====
